---- MODULE Spec2Model ----
(***************************************************************************)
(* A state-machine model of the shared consensus state store               *)
(* (node/narwhal/src/shared.rs, struct Shared) and of the node status      *)
(* controller (src/node.rs, struct Node).                                  *)
(*                                                                         *)
(* Callers are threads; each public method is one or more atomic steps,    *)
(* split exactly where the code releases or acquires an RwLock, so that    *)
(* every interleaving the locks allow is a behaviour of the model.         *)
(***************************************************************************)
EXTENDS Integers, FiniteSets, Sequences, TLC

(***************************************************************************)
(* Bounds of the model.                                                    *)
(***************************************************************************)
\* Number of caller threads.
NThreads == 2
\* Number of validator identities (Address<N>).
NAddr == 2
\* Number of peer socket addresses (SocketAddr).
NPeerIp == 2
\* u64 is modelled with 2 * HalfWidth bits.  The width stays even, as 64 is:
\* 2^w - 1 is a multiple of 3 exactly when w is even, and the value of
\* saturating_add(2) / 3 at the top of the range depends on that residue.
HalfWidth == 2
\* Largest value of `round` / `height` from which an increment is explored.
MaxRound == 3
\* Largest `round` / `height` handed to Shared::new.
MaxStart == 1
\* Number of background task handles.
NTasks == 2
NCerts == 2

Threads == 1 .. NThreads
Address == 1 .. NAddr
SocketAddr == 1 .. NPeerIp
TaskIds == 1 .. NTasks

\* u64::MAX at the modelled width, and u32::MAX at half of it.
U64_MAX == 2 ^ (2 * HalfWidth) - 1
U32_MAX == 2 ^ HalfWidth - 1
U64 == 0 .. U64_MAX

\* enum Status, #[repr(u8)].
Idle == 0
Mining == 1
Syncing == 2
ShuttingDown == 3
Status == {Idle, Mining, Syncing, ShuttingDown}

(***************************************************************************)
(* Option<T>: None is <<>>, Some(v) is <<v>>.                              *)
(***************************************************************************)
None == << >>
Some(v) == << v >>

(***************************************************************************)
(* std::collections::HashMap as a function on the set of present keys.     *)
(***************************************************************************)
EmptyMap == [k \in {} |-> 0]
HashMapGet(m, k) == IF k \in DOMAIN m THEN Some(m[k]) ELSE None
HashMapInsert(m, k, v) == [x \in DOMAIN m \cup {k} |-> IF x = k THEN v ELSE m[x]]
HashMapRemove(m, k) == [x \in DOMAIN m \ {k} |-> m[x]]

(***************************************************************************)
(* u64 arithmetic.                                                         *)
(***************************************************************************)
CheckedAddWrapping(a, b) == Some((a + b) % (U64_MAX + 1))
CheckedAdd(a, b) == IF a + b > U64_MAX THEN None ELSE Some(a + b)

SaturatingMul(a, b) == IF a * b > U64_MAX THEN U64_MAX ELSE a * b

SaturatingAddWrapping(a, b) == (a + b) % (U64_MAX + 1)
SaturatingAdd(a, b) == IF a + b > U64_MAX THEN U64_MAX ELSE a + b

\* AtomicU64 / AtomicU32 fetch_add: one indivisible read-modify-write that
\* wraps around at the counter's maximum.
FetchAddStore(cur, n, max) == n % (max + 1)
FetchAdd(cur, n, max) == (cur + n) % (max + 1)

\* The arithmetic of quorum_threshold on the value total_stake() returned.
\* (The trailing + 1 cannot overflow: the quotient is at most U64_MAX / 3.)
QuorumOfOffByOne(total) == SaturatingMul(total, 2) \div 3 + 2
QuorumOf(total) == SaturatingMul(total, 2) \div 3 + 1

\* The arithmetic of availability_threshold on the value total_stake() returned.
AvailabilityOf(total) == SaturatingAdd(total, 2) \div 3

VARIABLES
    committee,       \* Shared.committee: address -> stake
    round,           \* Shared.round (AtomicU64)
    height,          \* Shared.height (AtomicU32)
    sealed_batches,  \* Shared.sealed_batches: round -> (address -> certificate)
    peer_addresses,  \* Shared.peer_addresses: peer IP -> address
    address_peers,   \* Shared.address_peers: address -> peer IP
    lock,            \* the four RwLocks: writer (0 = none) and readers
    status,          \* Node.status (AtomicU8)
    tasks,           \* Node.tasks: handles of registered, unfinished tasks
    pc,              \* per thread: "idle", or the statement it is about to run
    frame,           \* per thread: arguments and locals of the call in progress
    ret,             \* per thread: what its last completed call returned
    history          \* history: the arguments of Shared::new, the number of
                     \* completed increment_round / increment_height calls
                     \* and the task handles that flush calls have drained

vars == << committee, round, height, sealed_batches, peer_addresses,
           address_peers, lock, status, tasks, pc, frame, ret, history >>

(***************************************************************************)
(* Per-thread bookkeeping.                                                 *)
(***************************************************************************)
\* No call in progress: no arguments, no locals.
NoFrame == [op |-> "none", peer_ip |-> 0, address |-> 0, stake |-> 0,
            power |-> 0, rest |-> {}, round |-> 0, certificates |-> << >>]
\* A returned value: the method, the variant (Ok, Err kind, Some, None, Unit)
\* and its payload: an integer v (0 when the variant carries none) and, for
\* the methods that return a map or a vector, its items (otherwise none).
Returned(op, tag, v) == [op |-> op, tag |-> tag, v |-> v, items |-> << >>]
ReturnedItems(op, tag, items) == [op |-> op, tag |-> tag, v |-> 0, items |-> items]
\* The call in progress has not returned yet.
Pending == Returned("none", "Pending", 0)
OptionReturned(op, o) ==
    IF o = None THEN Returned(op, "None", 0) ELSE Returned(op, "Some", o[1])

(***************************************************************************)
(* parking_lot::RwLock: many readers or one writer.                        *)
(***************************************************************************)
LockNames == {"committee", "sealed_batches", "peer_addresses", "address_peers"}
Unlocked == [writer |-> 0, readers |-> {}]
CanRead(l) == lock[l].writer = 0
CanWrite(l) == lock[l].writer = 0 /\ lock[l].readers = {}
ReadLocked(l, t) == [lock EXCEPT ![l].readers = @ \cup {t}]
ReadUnlocked(l, t) == [lock EXCEPT ![l].readers = @ \ {t}]
WriteLocked(l, t) == [lock EXCEPT ![l].writer = t]
WriteUnlocked(l, t) == [lock EXCEPT ![l].writer = 0]

(***************************************************************************)
(* Shared::new(round, height) and Node::new.                               *)
(***************************************************************************)
New(r, h) ==
    /\ committee = EmptyMap
    /\ round = r
    /\ height = h
    /\ sealed_batches = EmptyMap
    /\ peer_addresses = EmptyMap
    /\ address_peers = EmptyMap
    /\ lock = [l \in LockNames |-> Unlocked]
    /\ status = Idle
    /\ tasks = {}
    /\ pc = [t \in Threads |-> "idle"]
    /\ frame = [t \in Threads |-> NoFrame]
    /\ ret = [t \in Threads |-> Pending]
    /\ history = [new_round |-> r, new_height |-> h,
                  increment_round |-> 0, increment_height |-> 0,
                  flushed |-> {}]

(***************************************************************************)
(* Committee.                                                              *)
(***************************************************************************)
\* Everything but the committee, its lock and the calling threads' state.
nonCommittee == << round, height, sealed_batches, peer_addresses, address_peers,
                   status, tasks, history >>

\* What committee_size() returns: committee.read().len().
CommitteeSize == Cardinality(DOMAIN committee)

IsCommitteeMember(address) == address \in DOMAIN committee

\* add_validator, first statement: is_committee_member under a read lock that
\* is released before the result is tested; bail if it is a member.
AddValidatorUnchecked(t, address, stake) ==
    /\ pc[t] = "idle"
    /\ CanRead("committee")
    /\ pc' = [pc EXCEPT ![t] = "add_validator_write"]
    /\ frame' = [frame EXCEPT ![t] =
                    [NoFrame EXCEPT !.op = "add_validator",
                                    !.address = address, !.stake = stake]]
    /\ ret' = [ret EXCEPT ![t] = Pending]
    /\ UNCHANGED << committee, lock, nonCommittee >>
AddValidatorCheck(t, address, stake) ==
    /\ pc[t] = "idle"
    /\ CanRead("committee")
    /\ IF IsCommitteeMember(address)
         THEN /\ ret' = [ret EXCEPT ![t] =
                            Returned("add_validator", "DuplicateValidator", 0)]
              /\ UNCHANGED << pc, frame >>
         ELSE /\ pc' = [pc EXCEPT ![t] = "add_validator_write"]
              /\ frame' = [frame EXCEPT ![t] =
                              [NoFrame EXCEPT !.op = "add_validator",
                                              !.address = address,
                                              !.stake = stake]]
              /\ ret' = [ret EXCEPT ![t] = Pending]
    /\ UNCHANGED << committee, lock, nonCommittee >>

\* add_validator, second statement, committee.write(): the writer claims the
\* lock as soon as no other writer has it, which keeps new readers out, and
\* then waits for the readers that hold it (the lock's task-fair policy).  Only
\* the committee lock is ever held by a reader across steps, so only here does
\* the claim come apart from the write.
AddValidatorWrite(t) ==
    /\ pc[t] = "add_validator_write"
    /\ lock["committee"].writer = 0
    /\ lock' = WriteLocked("committee", t)
    /\ pc' = [pc EXCEPT ![t] = "add_validator_insert"]
    /\ UNCHANGED << committee, frame, ret, nonCommittee >>

\* add_validator inserting without waiting for the readers to leave.
AddValidatorInsertAmongReaders(t) ==
    /\ pc[t] = "add_validator_insert"
    /\ committee' = HashMapInsert(committee, frame[t].address, frame[t].stake)
    /\ lock' = WriteUnlocked("committee", t)
    /\ pc' = [pc EXCEPT ![t] = "idle"]
    /\ frame' = [frame EXCEPT ![t] = NoFrame]
    /\ ret' = [ret EXCEPT ![t] = Returned("add_validator", "Ok", 0)]
    /\ UNCHANGED nonCommittee
\* add_validator, second statement, .insert(address, stake) once the readers
\* have left; the write guard is a temporary, dropped with the statement.
AddValidatorInsert(t) ==
    /\ pc[t] = "add_validator_insert"
    /\ lock["committee"].readers = {}
    /\ committee' = HashMapInsert(committee, frame[t].address, frame[t].stake)
    /\ lock' = WriteUnlocked("committee", t)
    /\ pc' = [pc EXCEPT ![t] = "idle"]
    /\ frame' = [frame EXCEPT ![t] = NoFrame]
    /\ ret' = [ret EXCEPT ![t] = Returned("add_validator", "Ok", 0)]
    /\ UNCHANGED nonCommittee

\* The methods that scan the committee through total_stake().
StakeOps == {"total_stake", "quorum_threshold", "availability_threshold"}

\* What the caller of total_stake() makes of Ok(power).
StakeResult(op, power) ==
    CASE op = "total_stake" -> power
      [] op = "quorum_threshold" -> QuorumOf(power)
      [] op = "availability_threshold" -> AvailabilityOf(power)

\* total_stake (called directly, or first thing by one of the thresholds):
\* power = 0 and the read guard the `for` loop holds until it ends.
TotalStakeBegin(t, op) ==
    /\ pc[t] = "idle"
    /\ CanRead("committee")
    /\ lock' = ReadLocked("committee", t)
    /\ pc' = [pc EXCEPT ![t] = "total_stake_loop"]
    /\ frame' = [frame EXCEPT ![t] =
                    [NoFrame EXCEPT !.op = op, !.rest = DOMAIN committee]]
    /\ ret' = [ret EXCEPT ![t] = Pending]
    /\ UNCHANGED << committee, nonCommittee >>

\* One turn of the loop over committee.values(), in the HashMap's arbitrary
\* order: checked_add, and bail on overflow.  When no entry is left the guard
\* is dropped, Ok(power) returned and the threshold computed from it.
TotalStakeLoop(t) ==
    /\ pc[t] = "total_stake_loop"
    /\ IF frame[t].rest = {}
         THEN /\ ret' = [ret EXCEPT ![t] =
                            Returned(frame[t].op, "Ok",
                                     StakeResult(frame[t].op, frame[t].power))]
              /\ lock' = ReadUnlocked("committee", t)
              /\ pc' = [pc EXCEPT ![t] = "idle"]
              /\ frame' = [frame EXCEPT ![t] = NoFrame]
         ELSE \E a \in frame[t].rest :
                LET sum == CheckedAdd(frame[t].power, committee[a]) IN
                IF sum = None
                  THEN /\ ret' = [ret EXCEPT ![t] =
                                     Returned(frame[t].op, "StakeOverflow", 0)]
                       /\ lock' = ReadUnlocked("committee", t)
                       /\ pc' = [pc EXCEPT ![t] = "idle"]
                       /\ frame' = [frame EXCEPT ![t] = NoFrame]
                  ELSE /\ frame' = [frame EXCEPT ![t].power = sum[1],
                                                 ![t].rest = @ \ {a}]
                       /\ UNCHANGED << ret, lock, pc >>
    /\ UNCHANGED << committee, nonCommittee >>

\* The mathematical sum of the committee's stakes.
RECURSIVE SumOver(_, _)
SumOver(m, D) ==
    IF D = {} THEN 0
    ELSE LET a == CHOOSE x \in D : TRUE IN m[a] + SumOver(m, D \ {a})
SumStake == SumOver(committee, DOMAIN committee)

(***************************************************************************)
(* The committee under concurrent callers: add_validator against the       *)
(* scans, from the empty committee of Shared::new.                         *)
(***************************************************************************)
\* The stakes handed to add_validator: a small one and the largest one.
StakeInputs == {1, U64_MAX}

InitCommittee == New(0, 0)

NextCommittee ==
    \E t \in Threads :
        \/ \E a \in Address, s \in StakeInputs : AddValidatorCheck(t, a, s)
        \/ AddValidatorWrite(t)
        \/ AddValidatorInsert(t)
        \/ \E op \in StakeOps : TotalStakeBegin(t, op)
        \/ TotalStakeLoop(t)

SpecCommittee == InitCommittee /\ [][NextCommittee]_vars

\* The same callers making add_validator calls only: the scans change neither
\* the committee nor what add_validator does.
NextAddValidator ==
    \E t \in Threads :
        \/ \E a \in Address, s \in StakeInputs : AddValidatorCheck(t, a, s)
        \/ AddValidatorWrite(t)
        \/ AddValidatorInsert(t)

SpecAddValidator == InitCommittee /\ [][NextAddValidator]_vars

(***************************************************************************)
(* The threshold arithmetic over the whole u64 range: one caller, and any  *)
(* committee that add_validator calls with distinct addresses can build.   *)
(* A HashMap has no order on its keys and the scan visits them in any      *)
(* order, so one committee stands for all its renamings: the members are   *)
(* 1 .. k and their stakes do not decrease.                                *)
(***************************************************************************)
Committees ==
    { c \in UNION { [1 .. k -> U64] : k \in 0 .. NAddr } :
        \A i, j \in DOMAIN c : i < j => c[i] <= c[j] }

InitArith ==
    \E c \in Committees :
        /\ committee = c
        /\ round = 0
        /\ height = 0
        /\ sealed_batches = EmptyMap
        /\ peer_addresses = EmptyMap
        /\ address_peers = EmptyMap
        /\ lock = [l \in LockNames |-> Unlocked]
        /\ status = Idle
        /\ tasks = {}
        /\ pc = [t \in Threads |-> "idle"]
        /\ frame = [t \in Threads |-> NoFrame]
        /\ ret = [t \in Threads |-> Pending]
        /\ history = [new_round |-> 0, new_height |-> 0,
                      increment_round |-> 0, increment_height |-> 0,
                      flushed |-> {}]

NextArith ==
    \/ \E op \in StakeOps : TotalStakeBegin(1, op)
    \/ TotalStakeLoop(1)

SpecArith == InitArith /\ [][NextArith]_vars

(***************************************************************************)
(* Claims on the committee arithmetic.                                     *)
(***************************************************************************)
\* Thread t's last call was method op and returned Ok(v).
ReturnedOk(t, op) == ret[t].op = op /\ ret[t].tag = "Ok"

\* f of the BFT assumption S = 3f + 1 + k, 0 <= k < 3 (S >= 1).
FaultsOf(S) == (S - 1) \div 3

\* The summed stake of a set of validators.
StakeOf(D) == SumOver(committee, D)

\* C3: whenever total_stake() succeeds with value S, what quorum_threshold()
\* returns plus what availability_threshold() returns, minus 1, is at most S,
\* and both are at least 1 when S >= 1.
ThresholdsWithinStake ==
    \A t \in Threads :
        /\ ReturnedOk(t, "quorum_threshold") =>
              /\ ret[t].v + AvailabilityOf(SumStake) - 1 <= SumStake
              /\ SumStake >= 1 => ret[t].v >= 1
        /\ ReturnedOk(t, "availability_threshold") =>
              /\ QuorumOf(SumStake) + ret[t].v - 1 <= SumStake
              /\ SumStake >= 1 => ret[t].v >= 1

\* C3's case: a threshold was returned for a committee of several validators
\* whose total stake is the largest the counter holds.
ThresholdsWithinStakeWitness ==
    \E t \in Threads :
        /\ ReturnedOk(t, "availability_threshold")
        /\ SumStake = U64_MAX
        /\ CommitteeSize >= 2
        /\ ret[t].v >= 1

\* C4: any two sets of validators whose stakes each reach what
\* quorum_threshold() returned share validators of stake more than f, that
\* is at least the availability threshold.
QuorumIntersection ==
    \A t \in Threads :
        ReturnedOk(t, "quorum_threshold") =>
            \A A, B \in SUBSET DOMAIN committee :
                (StakeOf(A) >= ret[t].v /\ StakeOf(B) >= ret[t].v) =>
                    /\ StakeOf(A \cap B) > FaultsOf(SumStake)
                    /\ StakeOf(A \cap B) >= AvailabilityOf(SumStake)

\* C5: quorum_threshold() returns floor(2 * S / 3) + 1, which is S - f, for
\* every S total_stake() succeeds with.
QuorumThresholdExact ==
    \A t \in Threads :
        ReturnedOk(t, "quorum_threshold") =>
            /\ ret[t].v = (2 * SumStake) \div 3 + 1
            /\ SumStake >= 1 => ret[t].v = SumStake - FaultsOf(SumStake)

\* C6: availability_threshold() returns floor((S + 2) / 3), which is f + 1,
\* for every S total_stake() succeeds with, the two largest included.
AvailabilityThresholdExact ==
    \A t \in Threads :
        ReturnedOk(t, "availability_threshold") =>
            /\ ret[t].v = (SumStake + 2) \div 3
            /\ SumStake >= 1 => ret[t].v = FaultsOf(SumStake) + 1

\* C6's case: the threshold was returned for a total stake of u64::MAX or
\* u64::MAX - 1, where the addition saturates.
AvailabilityThresholdExactWitness ==
    \E t \in Threads :
        /\ ReturnedOk(t, "availability_threshold")
        /\ SumStake >= U64_MAX - 1
        /\ SumStake <= U64_MAX

\* C7: total_stake() leaves the committee as it is, and returns the overflow
\* error exactly when the sum of the stakes exceeds u64::MAX and the exact sum
\* otherwise, whatever the order of the scan.
TotalStakeExact ==
    [][\A t \in Threads :
          (pc[t] = "total_stake_loop" /\ frame[t].op = "total_stake") =>
              /\ committee' = committee
              /\ pc'[t] = "idle" =>
                    ret'[t] = IF SumStake > U64_MAX
                                THEN Returned("total_stake", "StakeOverflow", 0)
                                ELSE Returned("total_stake", "Ok", SumStake)]_vars

\* C7's case: total_stake() has returned the overflow error for a committee
\* in which no single stake overflows.
TotalStakeExactWitness ==
    \E t \in Threads :
        /\ ret[t] = Returned("total_stake", "StakeOverflow", 0)
        /\ CommitteeSize >= 2
        /\ \A a \in DOMAIN committee : committee[a] < U64_MAX

\* C8: an add_validator call for an address that is a member returns the
\* duplicate-validator failure at once and leaves the committee (its size,
\* the member's stake) as it was.
DuplicateValidatorRejected ==
    [][\A t \in Threads, a \in DOMAIN committee :
          pc[t] = "idle" =>
              \A s \in StakeInputs :
                  AddValidatorCheck(t, a, s) =>
                      /\ ret'[t] = Returned("add_validator", "DuplicateValidator", 0)
                      /\ pc'[t] = "idle"
                      /\ committee' = committee]_vars

\* C8's case: a call has been refused as a duplicate and the committee has
\* members.
DuplicateValidatorRejectedWitness ==
    \E t \in Threads :
        /\ ret[t] = Returned("add_validator", "DuplicateValidator", 0)
        /\ pc[t] = "idle"
        /\ CommitteeSize >= 1

\* C18: while total_stake(), quorum_threshold() or availability_threshold()
\* scans the committee, with add_validator calls in progress, what it has
\* summed so far is the sum over the entries it has visited of the committee
\* as it is at that instant; so the value it returns on leaving the loop is
\* the value of the committee of the instant of its return, never a mix of
\* two committees.
CommitteeSnapshotConsistent ==
    \A t \in Threads :
        pc[t] = "total_stake_loop" =>
            /\ frame[t].rest \subseteq DOMAIN committee
            /\ frame[t].power
                   = SumOver(committee, (DOMAIN committee) \ frame[t].rest)

\* C18's case: a scan has visited a member and has members left to visit
\* while an add_validator call waits to write the committee.
CommitteeSnapshotConsistentWitness ==
    \E t, u \in Threads :
        /\ pc[t] = "total_stake_loop"
        /\ frame[t].rest # {}
        /\ frame[t].rest # DOMAIN committee
        /\ pc[u] = "add_validator_insert"

\* C19: an address that is a committee member stays one, with the stake it
\* was recorded with, whatever add_validator calls run concurrently (so at
\* most one of the calls for an address succeeds in recording its stake).
MemberStakeNeverChanges ==
    [][\A a \in DOMAIN committee :
          /\ a \in DOMAIN committee'
          /\ committee'[a] = committee[a]]_vars

(***************************************************************************)
(* Peer address mapping.                                                   *)
(***************************************************************************)
\* Everything but the two peer maps, the locks and the calling threads' state.
nonPeers == << committee, round, height, sealed_batches, status, tasks, history >>

\* get_peer_ip: address_peers.read().get(address).copied().
GetPeerIp(t, address) ==
    /\ pc[t] = "idle"
    /\ CanRead("address_peers")
    /\ ret' = [ret EXCEPT ![t] =
                  OptionReturned("get_peer_ip", HashMapGet(address_peers, address))]
    /\ UNCHANGED << peer_addresses, address_peers, lock, pc, frame, nonPeers >>

\* get_address: peer_addresses.read().get(peer_ip).copied().
GetAddress(t, peer_ip) ==
    /\ pc[t] = "idle"
    /\ CanRead("peer_addresses")
    /\ ret' = [ret EXCEPT ![t] =
                  OptionReturned("get_address", HashMapGet(peer_addresses, peer_ip))]
    /\ UNCHANGED << peer_addresses, address_peers, lock, pc, frame, nonPeers >>

\* insert_peer that first takes the address_peers write guard into a local and
\* keeps it over the first statement.
InsertPeerForwardHoldingReverse(t, peer_ip, address) ==
    /\ pc[t] = "idle"
    /\ CanWrite("address_peers")
    /\ CanWrite("peer_addresses")
    /\ peer_addresses' = HashMapInsert(peer_addresses, peer_ip, address)
    /\ lock' = WriteLocked("address_peers", t)
    /\ pc' = [pc EXCEPT ![t] = "insert_peer_reverse"]
    /\ frame' = [frame EXCEPT ![t] =
                    [NoFrame EXCEPT !.op = "insert_peer",
                                    !.peer_ip = peer_ip, !.address = address]]
    /\ ret' = [ret EXCEPT ![t] = Pending]
    /\ UNCHANGED << address_peers, nonPeers >>
\* insert_peer, first statement: peer_addresses.write().insert(peer_ip,
\* address); the write guard is a temporary, dropped with the statement.
InsertPeerForward(t, peer_ip, address) ==
    /\ pc[t] = "idle"
    /\ CanWrite("peer_addresses")
    /\ peer_addresses' = HashMapInsert(peer_addresses, peer_ip, address)
    /\ pc' = [pc EXCEPT ![t] = "insert_peer_reverse"]
    /\ frame' = [frame EXCEPT ![t] =
                    [NoFrame EXCEPT !.op = "insert_peer",
                                    !.peer_ip = peer_ip, !.address = address]]
    /\ ret' = [ret EXCEPT ![t] = Pending]
    /\ UNCHANGED << address_peers, lock, nonPeers >>

\* insert_peer whose second statement first drops the reverse entries that
\* still name peer_ip.
InsertPeerReverseReplacing(t) ==
    /\ pc[t] = "insert_peer_reverse"
    /\ CanWrite("address_peers")
    /\ address_peers' =
           HashMapInsert([a \in {b \in DOMAIN address_peers :
                                    address_peers[b] # frame[t].peer_ip}
                            |-> address_peers[a]],
                         frame[t].address, frame[t].peer_ip)
    /\ pc' = [pc EXCEPT ![t] = "idle"]
    /\ frame' = [frame EXCEPT ![t] = NoFrame]
    /\ ret' = [ret EXCEPT ![t] = Returned("insert_peer", "Unit", 0)]
    /\ UNCHANGED << peer_addresses, lock, nonPeers >>
\* insert_peer, second statement: address_peers.write().insert(address,
\* peer_ip).
InsertPeerReverse(t) ==
    /\ pc[t] = "insert_peer_reverse"
    /\ CanWrite("address_peers")
    /\ address_peers' = HashMapInsert(address_peers, frame[t].address, frame[t].peer_ip)
    /\ pc' = [pc EXCEPT ![t] = "idle"]
    /\ frame' = [frame EXCEPT ![t] = NoFrame]
    /\ ret' = [ret EXCEPT ![t] = Returned("insert_peer", "Unit", 0)]
    /\ UNCHANGED << peer_addresses, lock, nonPeers >>

\* remove_peer, the `if let` scrutinee: peer_addresses.write().remove(peer_ip).
\* The write guard is a temporary of the scrutinee and lives to the end of the
\* `if let`: it is dropped at once when nothing was removed, and held over the
\* body otherwise.
RemovePeerForward(t, peer_ip) ==
    /\ pc[t] = "idle"
    /\ CanWrite("peer_addresses")
    /\ peer_addresses' = HashMapRemove(peer_addresses, peer_ip)
    /\ IF HashMapGet(peer_addresses, peer_ip) = None
         THEN /\ ret' = [ret EXCEPT ![t] = Returned("remove_peer", "Unit", 0)]
              /\ UNCHANGED << lock, pc, frame >>
         ELSE /\ lock' = WriteLocked("peer_addresses", t)
              /\ pc' = [pc EXCEPT ![t] = "remove_peer_reverse"]
              /\ frame' = [frame EXCEPT ![t] =
                              [NoFrame EXCEPT !.op = "remove_peer",
                                              !.peer_ip = peer_ip,
                                              !.address = peer_addresses[peer_ip]]]
              /\ ret' = [ret EXCEPT ![t] = Pending]
    /\ UNCHANGED << address_peers, nonPeers >>

\* remove_peer whose body leaves address_peers as it is.
RemovePeerReverseKept(t) ==
    /\ pc[t] = "remove_peer_reverse"
    /\ CanWrite("address_peers")
    /\ lock' = WriteUnlocked("peer_addresses", t)
    /\ pc' = [pc EXCEPT ![t] = "idle"]
    /\ frame' = [frame EXCEPT ![t] = NoFrame]
    /\ ret' = [ret EXCEPT ![t] = Returned("remove_peer", "Unit", 0)]
    /\ UNCHANGED << peer_addresses, address_peers, nonPeers >>
\* remove_peer, the body: address_peers.write().remove(&address), then the
\* peer_addresses guard is dropped.
RemovePeerReverse(t) ==
    /\ pc[t] = "remove_peer_reverse"
    /\ CanWrite("address_peers")
    /\ address_peers' = HashMapRemove(address_peers, frame[t].address)
    /\ lock' = WriteUnlocked("peer_addresses", t)
    /\ pc' = [pc EXCEPT ![t] = "idle"]
    /\ frame' = [frame EXCEPT ![t] = NoFrame]
    /\ ret' = [ret EXCEPT ![t] = Returned("remove_peer", "Unit", 0)]
    /\ UNCHANGED << peer_addresses, nonPeers >>

InitPeers == New(0, 0)

NextPeers ==
    \E t \in Threads :
        \/ \E a \in Address : GetPeerIp(t, a)
        \/ \E ip \in SocketAddr : GetAddress(t, ip)
        \/ \E ip \in SocketAddr, a \in Address : InsertPeerForward(t, ip, a)
        \/ InsertPeerReverse(t)
        \/ \E ip \in SocketAddr : RemovePeerForward(t, ip)
        \/ RemovePeerReverse(t)

SpecPeers == InitPeers /\ [][NextPeers]_vars

\* The peer methods called one at a time, by a single thread.
NextPeersSequential ==
    \/ \E a \in Address : GetPeerIp(1, a)
    \/ \E ip \in SocketAddr : GetAddress(1, ip)
    \/ \E ip \in SocketAddr, a \in Address : InsertPeerForward(1, ip, a)
    \/ InsertPeerReverse(1)
    \/ \E ip \in SocketAddr : RemovePeerForward(1, ip)
    \/ RemovePeerReverse(1)

SpecPeersSequential == InitPeers /\ [][NextPeersSequential]_vars

(***************************************************************************)
(* Claims on the peer address mapping.                                     *)
(***************************************************************************)
\* The two maps agree on the pair (peer_ip, address).
PairAgrees(peer_ip, address) ==
    (HashMapGet(peer_addresses, peer_ip) = Some(address))
        <=> (HashMapGet(address_peers, address) = Some(peer_ip))

\* C1: whenever every insert_peer and remove_peer call made so far has
\* completed, peer_addresses[ip] == addr if and only if
\* address_peers[addr] == ip, for every ip and addr.
PeerMappingConsistent ==
    (\A t \in Threads : pc[t] = "idle") =>
        \A ip \in SocketAddr, a \in Address : PairAgrees(ip, a)

\* C2: while one insert_peer or remove_peer is in progress and no other call
\* is, a reader that can take both read locks never finds the two maps
\* disagreeing on the pair the call is about.
UpdateAtomicToReaders ==
    \A t \in Threads :
        ( /\ pc[t] \in {"insert_peer_reverse", "remove_peer_reverse"}
          /\ \A u \in Threads \ {t} : pc[u] = "idle"
          /\ CanRead("peer_addresses")
          /\ CanRead("address_peers") )
            => PairAgrees(frame[t].peer_ip, frame[t].address)

\* C12: with calls made one at a time, right after insert_peer(ip, addr)
\* completes get_address(ip) is Some(addr) and get_peer_ip(addr) is Some(ip);
\* right after a remove_peer(ip) that found addr recorded for ip completes,
\* get_address(ip) and get_peer_ip(addr) are both None.
InsertThenRemoveRoundTrip ==
    [][\A t \in Threads :
          /\ InsertPeerReverse(t) =>
                /\ HashMapGet(peer_addresses', frame[t].peer_ip)
                       = Some(frame[t].address)
                /\ HashMapGet(address_peers', frame[t].address)
                       = Some(frame[t].peer_ip)
          /\ RemovePeerReverse(t) =>
                /\ HashMapGet(peer_addresses', frame[t].peer_ip) = None
                /\ HashMapGet(address_peers', frame[t].address) = None]_vars

\* C12's case: peers have been inserted and a remove_peer has completed that
\* left no forward entry, while a reverse entry of an earlier insert_peer is
\* still there.
InsertThenRemoveRoundTripWitness ==
    /\ \E t \in Threads : /\ pc[t] = "idle"
                          /\ ret[t] = Returned("remove_peer", "Unit", 0)
    /\ peer_addresses = EmptyMap
    /\ address_peers # EmptyMap

\* C13: with calls made one at a time, when insert_peer(ip, a2) completes
\* while a reverse entry a1 -> ip with a1 # a2 exists (as insert_peer(ip, a1)
\* left it), then get_address(ip) is Some(a2), get_peer_ip(a2) is Some(ip) and
\* get_peer_ip(a1) is still Some(ip).
LastWriteWinsDangling ==
    [][\A t \in Threads :
          InsertPeerReverse(t) =>
              \A a1 \in Address \ {frame[t].address} :
                  (HashMapGet(address_peers, a1) = Some(frame[t].peer_ip)) =>
                      /\ HashMapGet(peer_addresses', frame[t].peer_ip)
                             = Some(frame[t].address)
                      /\ HashMapGet(address_peers', frame[t].address)
                             = Some(frame[t].peer_ip)
                      /\ HashMapGet(address_peers', a1)
                             = Some(frame[t].peer_ip)]_vars

\* C13's case: insert_peer has completed and two addresses name the same
\* peer, only one of them being the peer's recorded address.
LastWriteWinsDanglingWitness ==
    /\ \A t \in Threads : pc[t] = "idle"
    /\ \E t \in Threads : ret[t] = Returned("insert_peer", "Unit", 0)
    /\ \E ip \in SocketAddr, a1, a2 \in Address :
          /\ a1 # a2
          /\ HashMapGet(peer_addresses, ip) = Some(a2)
          /\ HashMapGet(address_peers, a2) = Some(ip)
          /\ HashMapGet(address_peers, a1) = Some(ip)

\* C20: remove_peer(ip) leaves get_address(ip2) unchanged for every ip2 # ip,
\* leaves get_peer_ip(a) unchanged for every address a whose reverse entry
\* names a peer other than ip, and changes nothing when ip is not mapped.
RemovePeerFrame ==
    [][\A t \in Threads :
          /\ \A ip \in SocketAddr :
                RemovePeerForward(t, ip) =>
                    /\ \A ip2 \in SocketAddr \ {ip} :
                          HashMapGet(peer_addresses', ip2)
                              = HashMapGet(peer_addresses, ip2)
                    /\ address_peers' = address_peers
                    /\ (HashMapGet(peer_addresses, ip) = None)
                          => peer_addresses' = peer_addresses
          /\ RemovePeerReverse(t) =>
                /\ peer_addresses' = peer_addresses
                /\ \A a \in Address :
                      (HashMapGet(address_peers, a)
                           \notin {None, Some(frame[t].peer_ip)})
                        => HashMapGet(address_peers', a)
                               = HashMapGet(address_peers, a)]_vars

(***************************************************************************)
(* Sealed batches.  A SealedBatch is modelled by its certificate.          *)
(***************************************************************************)
\* Everything but the sealed batches, their lock and the threads' state.
nonBatches == << committee, round, height, peer_addresses, address_peers,
                 status, tasks, history >>

\* previous_certificates returning None.
NoCertificates == Returned("previous_certificates", "None", 0)

\* sealed_batches(round): self.sealed_batches.read().get(&round).cloned().
SealedBatches(t, r) ==
    /\ pc[t] = "idle"
    /\ CanRead("sealed_batches")
    /\ ret' = [ret EXCEPT ![t] =
                  IF HashMapGet(sealed_batches, r) = None
                    THEN Returned("sealed_batches", "None", 0)
                    ELSE ReturnedItems("sealed_batches", "Some", sealed_batches[r])]
    /\ UNCHANGED << sealed_batches, lock, pc, frame, nonBatches >>

\* previous_certificates without the round == 0 return: the round before is
\* round.saturating_sub(1).
PreviousCertificatesSaturating(t, r) ==
    LET before == IF r = 0 THEN 0 ELSE r - 1 IN
    /\ pc[t] = "idle"
    /\ CanRead("sealed_batches")
    /\ IF HashMapGet(sealed_batches, before) = None
         THEN /\ UNCHANGED << lock, pc, frame >>
              /\ ret' = [ret EXCEPT ![t] = NoCertificates]
         ELSE /\ lock' = ReadLocked("sealed_batches", t)
              /\ pc' = [pc EXCEPT ![t] = "previous_certificates_loop"]
              /\ frame' = [frame EXCEPT ![t] =
                              [NoFrame EXCEPT
                                  !.op = "previous_certificates",
                                  !.round = before + 1,
                                  !.rest = DOMAIN sealed_batches[before]]]
              /\ ret' = [ret EXCEPT ![t] = Pending]
    /\ UNCHANGED << sealed_batches, nonBatches >>
\* previous_certificates(round) up to the loop: None for round 0; otherwise
\* the read guard is taken and held in a local, and the batches of round - 1
\* are looked up: None when there are none, else the loop starts on an empty
\* vector.
PreviousCertificatesBegin(t, r) ==
    /\ pc[t] = "idle"
    /\ IF r = 0
         THEN /\ UNCHANGED << lock, pc, frame >>
              /\ ret' = [ret EXCEPT ![t] = NoCertificates]
         ELSE /\ CanRead("sealed_batches")
              /\ IF HashMapGet(sealed_batches, r - 1) = None
                   THEN /\ UNCHANGED << lock, pc, frame >>
                        /\ ret' = [ret EXCEPT ![t] = NoCertificates]
                   ELSE /\ lock' = ReadLocked("sealed_batches", t)
                        /\ pc' = [pc EXCEPT ![t] = "previous_certificates_loop"]
                        /\ frame' = [frame EXCEPT ![t] =
                                        [NoFrame EXCEPT
                                            !.op = "previous_certificates",
                                            !.round = r,
                                            !.rest = DOMAIN sealed_batches[r - 1]]]
                        /\ ret' = [ret EXCEPT ![t] = Pending]
    /\ UNCHANGED << sealed_batches, nonBatches >>

\* The loop pushing a certificate only when the vector does not hold it yet.
PreviousCertificatesLoopDedup(t) ==
    /\ pc[t] = "previous_certificates_loop"
    /\ IF frame[t].rest = {}
         THEN /\ ret' = [ret EXCEPT ![t] =
                            ReturnedItems("previous_certificates", "Some",
                                          frame[t].certificates)]
              /\ lock' = ReadUnlocked("sealed_batches", t)
              /\ pc' = [pc EXCEPT ![t] = "idle"]
              /\ frame' = [frame EXCEPT ![t] = NoFrame]
         ELSE \E a \in frame[t].rest :
                LET c == sealed_batches[frame[t].round - 1][a] IN
                /\ frame' = [frame EXCEPT
                                ![t].certificates =
                                    IF \E i \in DOMAIN @ : @[i] = c
                                      THEN @ ELSE Append(@, c),
                                ![t].rest = @ \ {a}]
                /\ UNCHANGED << ret, lock, pc >>
    /\ UNCHANGED << sealed_batches, nonBatches >>
\* One turn of the loop over batches.values(), in the HashMap's arbitrary
\* order: the batch's certificate is pushed.  When no batch is left the guard
\* is dropped and Some(certificates) returned.
PreviousCertificatesLoop(t) ==
    /\ pc[t] = "previous_certificates_loop"
    /\ IF frame[t].rest = {}
         THEN /\ ret' = [ret EXCEPT ![t] =
                            ReturnedItems("previous_certificates", "Some",
                                          frame[t].certificates)]
              /\ lock' = ReadUnlocked("sealed_batches", t)
              /\ pc' = [pc EXCEPT ![t] = "idle"]
              /\ frame' = [frame EXCEPT ![t] = NoFrame]
         ELSE \E a \in frame[t].rest :
                /\ frame' = [frame EXCEPT
                                ![t].certificates =
                                    Append(@, sealed_batches[frame[t].round - 1][a]),
                                ![t].rest = @ \ {a}]
                /\ UNCHANGED << ret, lock, pc >>
    /\ UNCHANGED << sealed_batches, nonBatches >>

(***************************************************************************)
(* The batch lookups over any recorded batches: one caller.  Nothing in    *)
(* the store's own code records a sealed batch, so the recorded batches    *)
(* are drawn at the start: any set of rounds, each with at least one       *)
(* validator's batch.  The lookups never look at a validator's address     *)
(* and visit a round's batches in any order, so one round's batches stand  *)
(* for all their renamings: the validators are 1 .. k and their            *)
(* certificates do not decrease.                                           *)
(***************************************************************************)
Certificates == 1 .. NCerts
BatchRounds == 0 .. MaxStart

RoundBatches ==
    { b \in UNION { [1 .. k -> Certificates] : k \in 1 .. NAddr } :
        \A i, j \in DOMAIN b : i < j => b[i] <= b[j] }

SealedBatchStores == UNION { [R -> RoundBatches] : R \in SUBSET BatchRounds }

InitBatches ==
    \E s \in SealedBatchStores, r \in 0 .. MaxStart :
        /\ committee = EmptyMap
        /\ round = r
        /\ height = 0
        /\ sealed_batches = s
        /\ peer_addresses = EmptyMap
        /\ address_peers = EmptyMap
        /\ lock = [l \in LockNames |-> Unlocked]
        /\ status = Idle
        /\ tasks = {}
        /\ pc = [t \in Threads |-> "idle"]
        /\ frame = [t \in Threads |-> NoFrame]
        /\ ret = [t \in Threads |-> Pending]
        /\ history = [new_round |-> r, new_height |-> 0,
                      increment_round |-> 0, increment_height |-> 0,
                      flushed |-> {}]

NextBatches ==
    \/ \E r \in BatchRounds : SealedBatches(1, r)
    \/ \E r \in 0 .. MaxStart + 1 : PreviousCertificatesBegin(1, r)
    \/ PreviousCertificatesLoop(1)

SpecBatches == InitBatches /\ [][NextBatches]_vars

(***************************************************************************)
(* Claims on the sealed batches.                                           *)
(***************************************************************************)
\* How many times certificate c occurs in the sequence s.
Occurrences(s, c) == Cardinality({i \in DOMAIN s : s[i] = c})

\* C14: previous_certificates(0) returns None, whatever batches are recorded
\* and whatever the round counter is.
NoCertificatesBeforeRoundZero ==
    [][\A t \in Threads :
          PreviousCertificatesBegin(t, 0) =>
              /\ pc'[t] = "idle"
              /\ ret'[t] = NoCertificates]_vars

\* C14's case: previous_certificates has returned None although batches are
\* recorded for round 0 and the round counter is past 0.
NoCertificatesBeforeRoundZeroWitness ==
    /\ round > 0
    /\ HashMapGet(sealed_batches, 0) # None
    /\ \E t \in Threads :
          /\ pc[t] = "idle"
          /\ ret[t] = NoCertificates

\* C15: for r > 0, previous_certificates(r) returns None exactly when
\* sealed_batches(r - 1) does, and otherwise returns Some(certificates) where
\* every certificate occurs as many times as validators have a batch with
\* that certificate recorded for round r - 1.
PreviousCertificatesExact ==
    [][\A t \in Threads :
          /\ \A r \in 1 .. MaxStart + 1 :
                PreviousCertificatesBegin(t, r) =>
                    ( ( /\ pc'[t] = "idle"
                        /\ ret'[t] = NoCertificates )
                      <=> HashMapGet(sealed_batches, r - 1) = None )
          /\ ( /\ pc[t] = "previous_certificates_loop"
               /\ pc'[t] = "idle"
               /\ PreviousCertificatesLoop(t) ) =>
                    LET batches == sealed_batches[frame[t].round - 1] IN
                    /\ ret'[t].op = "previous_certificates"
                    /\ ret'[t].tag = "Some"
                    /\ \A c \in Certificates :
                          Occurrences(ret'[t].items, c)
                              = Cardinality({a \in DOMAIN batches :
                                               batches[a] = c})]_vars

\* C15's case: previous_certificates has returned two equal certificates, of
\* two validators' batches, while another round holds a different one.
PreviousCertificatesExactWitness ==
    \E t \in Threads :
        /\ pc[t] = "idle"
        /\ ret[t].op = "previous_certificates"
        /\ ret[t].tag = "Some"
        /\ Len(ret[t].items) >= 2
        /\ ret[t].items[1] = ret[t].items[2]
        /\ \E r \in DOMAIN sealed_batches, a \in Address :
              /\ a \in DOMAIN sealed_batches[r]
              /\ sealed_batches[r][a] # ret[t].items[1]

(***************************************************************************)
(* Round and height counters.                                              *)
(***************************************************************************)
\* Everything but the counters, their history and the threads' results.
nonCounters == << committee, sealed_batches, peer_addresses, address_peers,
                  lock, status, tasks, pc, frame >>

\* round(): round.load(Relaxed).
Round(t) ==
    /\ pc[t] = "idle"
    /\ ret' = [ret EXCEPT ![t] = Returned("round", "Ok", round)]
    /\ UNCHANGED << round, height, history, nonCounters >>

\* height(): height.load(Relaxed).
Height(t) ==
    /\ pc[t] = "idle"
    /\ ret' = [ret EXCEPT ![t] = Returned("height", "Ok", height)]
    /\ UNCHANGED << round, height, history, nonCounters >>

\* increment_round that adds 1 to the height as well.
IncrementRoundAndHeight(t) ==
    /\ pc[t] = "idle"
    /\ history.increment_round < MaxRound
    /\ round' = FetchAdd(round, 1, U64_MAX)
    /\ height' = FetchAdd(height, 1, U32_MAX)
    /\ history' = [history EXCEPT !.increment_round = @ + 1]
    /\ ret' = [ret EXCEPT ![t] = Returned("increment_round", "Unit", 0)]
    /\ UNCHANGED nonCounters
\* increment_round(): round.fetch_add(1, Relaxed).  Explored up to MaxRound
\* calls.
IncrementRound(t) ==
    /\ pc[t] = "idle"
    /\ history.increment_round < MaxRound
    /\ round' = FetchAdd(round, 1, U64_MAX)
    /\ history' = [history EXCEPT !.increment_round = @ + 1]
    /\ ret' = [ret EXCEPT ![t] = Returned("increment_round", "Unit", 0)]
    /\ UNCHANGED << height, nonCounters >>

\* increment_height(): height.fetch_add(1, Relaxed).  Explored up to MaxRound
\* calls.
IncrementHeight(t) ==
    /\ pc[t] = "idle"
    /\ history.increment_height < MaxRound
    /\ height' = FetchAdd(height, 1, U32_MAX)
    /\ history' = [history EXCEPT !.increment_height = @ + 1]
    /\ ret' = [ret EXCEPT ![t] = Returned("increment_height", "Unit", 0)]
    /\ UNCHANGED << round, nonCounters >>

InitCounters == \E r, h \in 0 .. MaxStart : New(r, h)

NextCounters ==
    \E t \in Threads :
        \/ Round(t)
        \/ Height(t)
        \/ IncrementRound(t)
        \/ IncrementHeight(t)

SpecCounters == InitCounters /\ [][NextCounters]_vars

\* Shared::new takes any u64 round and any u32 height: the counters started
\* within MaxStart of the top of their ranges.
InitCountersTop ==
    \E r \in U64_MAX - MaxStart .. U64_MAX, h \in U32_MAX - MaxStart .. U32_MAX :
        New(r, h)

SpecCountersTop == InitCountersTop /\ [][NextCounters]_vars

(***************************************************************************)
(* Claims on the counters.                                                 *)
(***************************************************************************)
\* C9: after any number of increment_round() calls by any threads, in any
\* interleaving, round() is the initial value plus the number of calls.
NoLostRoundUpdate ==
    round = history.new_round + history.increment_round

\* C9's case: two different threads have both incremented the round.
NoLostRoundUpdateWitness ==
    /\ history.increment_round >= 2
    /\ \E t, u \in Threads :
          /\ t # u
          /\ ret[t].op = "increment_round"
          /\ ret[u].op = "increment_round"

\* C16 as stated: round and height never decrease, change only through
\* increment_round and increment_height respectively, and each of these
\* leaves the other counter unchanged.
CountersMonotone ==
    [][/\ round' >= round
       /\ height' >= height
       /\ (round' # round) =>
              (height' = height /\ \E t \in Threads : IncrementRound(t))
       /\ (height' # height) =>
              (round' = round /\ \E t \in Threads : IncrementHeight(t))]_vars

\* C16, amended: a counter changes only through its increment method, which
\* leaves the other counter unchanged and adds exactly 1, except that at the
\* counter's maximum (u64::MAX, u32::MAX) it wraps to 0; so reads never
\* decrease as long as no increment is made at the maximum.
CountersMonotoneUntilWrap ==
    [][/\ (round' # round) =>
              /\ height' = height
              /\ \E t \in Threads : IncrementRound(t)
              /\ round' = IF round = U64_MAX THEN 0 ELSE round + 1
       /\ (height' # height) =>
              /\ round' = round
              /\ \E t \in Threads : IncrementHeight(t)
              /\ height' = IF height = U32_MAX THEN 0 ELSE height + 1]_vars

\* C16's case: both counters have been incremented without wrapping, and a
\* thread has read the round after the increments.
CountersMonotoneUntilWrapWitness ==
    /\ history.increment_round >= 1
    /\ history.increment_height >= 1
    /\ round = history.new_round + history.increment_round
    /\ height = history.new_height + history.increment_height
    /\ \E t \in Threads : ret[t] = Returned("round", "Ok", round)

(***************************************************************************)
(* The whole store under concurrent callers.  Which locks a call takes     *)
(* depends on whether its key is there, not on which key it is: the calls  *)
(* are made for one validator, one peer and one round with a batch.  The   *)
(* thresholds take their lock inside total_stake, which they call:         *)
(* quorum_threshold stands for the three scans.                            *)
(***************************************************************************)
InitStore ==
    /\ committee = EmptyMap
    /\ round = 0
    /\ height = 0
    /\ sealed_batches = [r \in {0} |-> [a \in {1} |-> 1]]
    /\ peer_addresses = EmptyMap
    /\ address_peers = EmptyMap
    /\ lock = [l \in LockNames |-> Unlocked]
    /\ status = Idle
    /\ tasks = {}
    /\ pc = [t \in Threads |-> "idle"]
    /\ frame = [t \in Threads |-> NoFrame]
    /\ ret = [t \in Threads |-> Pending]
    /\ history = [new_round |-> 0, new_height |-> 0,
                  increment_round |-> 0, increment_height |-> 0,
                  flushed |-> {}]

\* The step that continues thread t's call in progress.
Continue(t) ==
    \/ AddValidatorWrite(t)
    \/ AddValidatorInsert(t)
    \/ TotalStakeLoop(t)
    \/ PreviousCertificatesLoop(t)
    \/ InsertPeerReverse(t)
    \/ RemovePeerReverse(t)

NextStore ==
    \E t \in Threads :
        \/ AddValidatorCheck(t, 1, 1)
        \/ TotalStakeBegin(t, "quorum_threshold")
        \/ SealedBatches(t, 0)
        \/ PreviousCertificatesBegin(t, 1)
        \/ GetPeerIp(t, 1)
        \/ GetAddress(t, 1)
        \/ InsertPeerForward(t, 1, 1)
        \/ RemovePeerForward(t, 1)
        \/ Continue(t)

SpecStore == InitStore /\ [][NextStore]_vars

\* Fair scheduling: a thread whose call can continue is eventually run, and
\* the task-fair lock eventually grants the write claim of a thread that
\* keeps asking for it.
SpecStoreFair ==
    /\ SpecStore
    /\ \A t \in Threads : WF_vars(Continue(t))
    /\ \A t \in Threads : SF_vars(AddValidatorWrite(t))

\* C17: under fair scheduling every started store operation completes: no
\* call in progress waits forever for a lock.
StoreOperationsComplete ==
    \A t \in Threads : (pc[t] # "idle") ~> (pc[t] = "idle")

\* C17's case: remove_peer holds the peer_addresses lock and is about to take
\* the address_peers lock while another thread is in the middle of
\* insert_peer, about to take the address_peers lock as well.
StoreOperationsCompleteWitness ==
    \E t, u \in Threads :
        /\ pc[t] = "remove_peer_reverse"
        /\ lock["peer_addresses"].writer = t
        /\ pc[u] = "insert_peer_reverse"

(***************************************************************************)
(* Node status.                                                            *)
(***************************************************************************)
\* Everything of the store: the node's methods touch none of it.
store == << committee, round, height, sealed_batches, peer_addresses,
            address_peers, lock >>

\* Tasks::append(handle): a spawned task's handle joins the registry.
TasksAppend(k) ==
    /\ k \notin tasks
    /\ tasks' = tasks \cup {k}
    /\ UNCHANGED << status, pc, frame, ret, history, store >>

\* Tasks::flush(): every registered task is drained before it returns.
TasksFlushed == {}

\* status(): status.load(SeqCst).
StatusCall(t) ==
    /\ pc[t] = "idle"
    /\ ret' = [ret EXCEPT ![t] = Returned("status", "Ok", status)]
    /\ UNCHANGED << status, tasks, pc, frame, history, store >>

\* set_status without the match on ShuttingDown: the registry is not flushed.
SetStatusNoFlush(t, state) ==
    /\ pc[t] = "idle"
    /\ status' = state
    /\ ret' = [ret EXCEPT ![t] = Returned("set_status", "Unit", state)]
    /\ UNCHANGED << tasks, pc, frame, history, store >>
\* set_status(state): status.store(state as u8, SeqCst), then tasks.flush()
\* when state is ShuttingDown.
SetStatus(t, state) ==
    /\ pc[t] = "idle"
    /\ status' = state
    /\ tasks' = IF state = ShuttingDown THEN TasksFlushed ELSE tasks
    /\ history' = IF state = ShuttingDown
                    THEN [history EXCEPT !.flushed = @ \cup tasks]
                    ELSE history
    /\ ret' = [ret EXCEPT ![t] = Returned("set_status", "Unit", state)]
    /\ UNCHANGED << pc, frame, store >>

\* shut_down(): set_status(Status::ShuttingDown).
ShutDown(t) ==
    /\ pc[t] = "idle"
    /\ status' = ShuttingDown
    /\ tasks' = TasksFlushed
    /\ history' = [history EXCEPT !.flushed = @ \cup tasks]
    /\ ret' = [ret EXCEPT ![t] = Returned("shut_down", "Unit", 0)]
    /\ UNCHANGED << pc, frame, store >>

InitNode == New(0, 0)

NextNode ==
    \/ \E k \in TaskIds : TasksAppend(k)
    \/ \E t \in Threads :
          \/ StatusCall(t)
          \/ \E state \in Status : SetStatus(t, state)
          \/ ShutDown(t)

SpecNode == InitNode /\ [][NextNode]_vars

(***************************************************************************)
(* Claims on the node status.                                              *)
(***************************************************************************)
\* C10: once status() has returned ShuttingDown, whatever set_status and
\* shut_down calls follow, status() returns ShuttingDown again.
ShuttingDownTerminal ==
    [][(\E t \in Threads : ret[t] = Returned("status", "Ok", ShuttingDown)) =>
          \A u \in Threads :
              (ret'[u] # ret[u] /\ ret'[u].op = "status") =>
                  ret'[u].v = ShuttingDown]_vars

\* C11: when set_status(ShuttingDown) or shut_down() returns, no task that was
\* registered before the call is still running.
ShutdownDrainsTasks ==
    [][\A t \in Threads :
          (SetStatus(t, ShuttingDown) \/ ShutDown(t)) =>
              tasks' \cap tasks = {}]_vars

\* C11's case: a shutdown call has returned after draining registered tasks.
ShutdownDrainsTasksWitness ==
    /\ history.flushed # {}
    /\ tasks = {}
    /\ \E t \in Threads : ret[t] \in { Returned("set_status", "Unit", ShuttingDown),
                                        Returned("shut_down", "Unit", 0) }

====
